---------------------------- MODULE Spec2Model ----------------------------
(***************************************************************************)
(* Model of pybamm/expression_tree/evaluate.py: the conversion of an       *)
(* expression tree into a list of Python assignments (find_symbols,        *)
(* to_python) and the object that runs them (EvaluatorPython).             *)
(*                                                                         *)
(* Strings are real strings: a variable name is built by the same          *)
(* formatting the code uses, and a generated line is a record holding the  *)
(* names it reads.  Numbers are exact rationals <<n, d>>; <<0, 0>> stands  *)
(* for numpy's inf/nan.                                                    *)
(***************************************************************************)
EXTENDS Integers, Sequences, FiniteSets, TLC

VARIABLES
    nodes,      \* the symbols built so far; nodes[i].children index earlier ones
    phase,      \* "build" | "ready" (an EvaluatorPython exists) | "failed"
    root,       \* index of the symbol handed to EvaluatorPython, 0 before
    evaluator,  \* the EvaluatorPython instance: its attributes
    trace,      \* what find_symbols did, in order (line 47's log and the stores)
    error,      \* the exception EvaluatorPython(symbol) raised, if any
    calls       \* the evaluate() calls in progress or finished, per caller

vars == <<nodes, phase, root, evaluator, trace, error, calls>>

-----------------------------------------------------------------------------
(* Bounds of the model *)

MaxNodes == 3

MaxConcurrentNodes == 2

-----------------------------------------------------------------------------
(* Generic helpers *)

Max(a, b) == IF a >= b THEN a ELSE b

Min(a, b) == IF a <= b THEN a ELSE b

Abs(n) == IF n < 0 THEN -n ELSE n

Range(s) == {s[i] : i \in DOMAIN s}

RECURSIVE GCD(_, _)
GCD(a, b) == IF b = 0 THEN a ELSE GCD(b, a % b)

RECURSIVE Flatten(_)
Flatten(ss) == IF ss = <<>> THEN <<>> ELSE Head(ss) \o Flatten(Tail(ss))

-----------------------------------------------------------------------------
(* Numbers: exact rationals, with NaN for a division by zero *)

NaN == <<0, 0>>

Rat(n, d) ==
    IF d = 0 THEN NaN
    ELSE LET g == GCD(Abs(n), Abs(d))
             s == IF d < 0 THEN -1 ELSE 1
         IN  <<(s * n) \div g, (s * d) \div g>>

RSub(x, y) == IF x = NaN \/ y = NaN THEN NaN
              ELSE Rat(x[1] * y[2] - y[1] * x[2], x[2] * y[2])

RMul(x, y) == IF x = NaN \/ y = NaN THEN NaN
              ELSE Rat(x[1] * y[1], x[2] * y[2])

RDiv(x, y) == IF x = NaN \/ y = NaN THEN NaN
              ELSE Rat(x[1] * y[2], x[2] * y[1])

RNeg(x) == IF x = NaN THEN NaN ELSE <<-x[1], x[2]>>

-----------------------------------------------------------------------------
(* Python values.  tag: "num" a scalar, "dense" a column array, "flat" a   *)
(* one-dimensional array, "sparse" a scipy sparse column, "func" a         *)
(* callable, "None", "raise" an exception in flight (exc names its type).  *)

Val(tag, v) == [tag |-> tag, v |-> v, exc |-> ""]

Num(n) == Val("num", <<Rat(n, 1)>>)

NoneV == Val("None", <<>>)

FuncHandle == Val("func", <<>>)

Raise(exc) == [tag |-> "raise", v |-> <<>>, exc |-> exc]

IsRaise(x) == x.tag = "raise"

IsArray(x) == x.tag \in {"dense", "flat", "sparse"}

IsNumeric(x) == x.tag \in {"num", "dense", "flat", "sparse"}

\* scipy.sparse.issparse
issparse(x) == x.tag = "sparse"

\* the elementwise operation a name stands for
ElemOp(op, a, b) ==
    CASE op = "sub" -> RSub(a, b)
      [] op = "mul" -> RMul(a, b)
      [] op = "div" -> RDiv(a, b)

\* numpy broadcasting of two columns (or scalars) under an elementwise op
Broadcast(op, tag, x, y) ==
    LET lx == Len(x.v)
        ly == Len(y.v)
    IN  IF lx = ly THEN Val(tag, [i \in 1..lx |-> ElemOp(op, x.v[i], y.v[i])])
        ELSE IF lx = 1 THEN Val(tag, [i \in 1..ly |-> ElemOp(op, x.v[1], y.v[i])])
        ELSE IF ly = 1 THEN Val(tag, [i \in 1..lx |-> ElemOp(op, x.v[i], y.v[1])])
        ELSE Raise("ValueError")

DenseTag(x, y) ==
    IF x.tag = "num" /\ y.tag = "num" THEN "num"
    ELSE IF x.tag = "flat" \/ y.tag = "flat" THEN "flat"
    ELSE "dense"

\* x - y
PySub(x, y) ==
    IF IsRaise(x) THEN x
    ELSE IF IsRaise(y) THEN y
    ELSE IF ~IsNumeric(x) \/ ~IsNumeric(y) THEN Raise("TypeError")
    ELSE IF issparse(x) /\ issparse(y) THEN Broadcast("sub", "sparse", x, y)
    ELSE IF (issparse(x) /\ y.tag = "num") \/ (issparse(y) /\ x.tag = "num")
         THEN Raise("NotImplementedError")
    ELSE IF issparse(x) \/ issparse(y) THEN Broadcast("sub", "dense", x, y)
    ELSE Broadcast("sub", DenseTag(x, y), x, y)

\* x * y : with a sparse operand this is a matrix product, not elementwise
PyMul(x, y) ==
    IF IsRaise(x) THEN x
    ELSE IF IsRaise(y) THEN y
    ELSE IF ~IsNumeric(x) \/ ~IsNumeric(y) THEN Raise("TypeError")
    ELSE IF issparse(x) \/ issparse(y)
         THEN IF x.tag = "num" \/ y.tag = "num"
                   THEN Broadcast("mul", "sparse", x, y)
              ELSE IF Len(x.v) = 1 /\ Len(y.v) = 1
                   THEN Broadcast("mul", IF issparse(x) /\ issparse(y)
                                        THEN "sparse" ELSE "dense", x, y)
              ELSE Raise("ValueError")
    ELSE Broadcast("mul", DenseTag(x, y), x, y)

\* x / y
PyDiv(x, y) ==
    IF IsRaise(x) THEN x
    ELSE IF IsRaise(y) THEN y
    ELSE IF ~IsNumeric(x) \/ ~IsNumeric(y) THEN Raise("TypeError")
    ELSE IF issparse(y) THEN Raise("TypeError")
    ELSE IF issparse(x)
         THEN IF y.tag = "num" THEN Broadcast("div", "sparse", x, y)
              ELSE Broadcast("div", "dense", x, y)
    ELSE Broadcast("div", DenseTag(x, y), x, y)

\* -x
PyNeg(x) ==
    IF IsRaise(x) THEN x
    ELSE IF ~IsNumeric(x) THEN Raise("TypeError")
    ELSE Val(x.tag, [i \in 1..Len(x.v) |-> RNeg(x.v[i])])

\* x.multiply(y), scipy's elementwise product of a sparse x
multiply(x, y) ==
    IF IsRaise(x) THEN x
    ELSE IF IsRaise(y) THEN y
    ELSE IF ~issparse(x) THEN Raise("AttributeError")
    ELSE IF ~IsNumeric(y) THEN Raise("TypeError")
    ELSE Broadcast("mul", "sparse", x, y)

\* f(x): the one function handle of the model squares its argument
Apply(f, x) ==
    IF IsRaise(f) THEN f
    ELSE IF IsRaise(x) THEN x
    ELSE IF f.tag # "func" THEN Raise("TypeError")
    ELSE IF ~IsNumeric(x) THEN Raise("TypeError")
    ELSE Val(x.tag, [i \in 1..Len(x.v) |-> RMul(x.v[i], x.v[i])])

\* x[i]
GetItem(x, i) ==
    IF IsRaise(x) THEN x
    ELSE IF ~IsNumeric(x) THEN Raise("TypeError")
    ELSE IF x.tag = "num" THEN Raise("IndexError")
    ELSE IF i < 0 \/ i >= Len(x.v) THEN Raise("IndexError")
    ELSE Val(IF x.tag = "flat" THEN "num" ELSE x.tag, <<x.v[i + 1]>>)

\* x[a:b], clipped as Python clips a slice
GetSlice(x, a, b) ==
    IF IsRaise(x) THEN x
    ELSE IF ~IsNumeric(x) THEN Raise("TypeError")
    ELSE IF x.tag = "num" THEN Raise("IndexError")
    ELSE Val(x.tag, SubSeq(x.v, Min(a, Len(x.v)) + 1, Min(b, Len(x.v))))

FirstRaise(xs) ==
    LET bad == {i \in DOMAIN xs : IsRaise(xs[i])}
    IN  IF bad = {} THEN NoneV
        ELSE xs[CHOOSE i \in bad : \A j \in bad : i <= j]

\* np.concatenate((x1, ..., xn))
np_concatenate(xs) ==
    IF FirstRaise(xs) # NoneV THEN FirstRaise(xs)
    ELSE IF \E i \in DOMAIN xs : xs[i].tag \notin {"dense", "flat"}
         THEN Raise("ValueError")
    ELSE IF \E i, j \in DOMAIN xs : xs[i].tag # xs[j].tag THEN Raise("ValueError")
    ELSE Val(xs[1].tag, Flatten([i \in DOMAIN xs |-> xs[i].v]))

\* scipy.sparse.vstack((x1, ..., xn))
sparse_vstack(xs) ==
    IF FirstRaise(xs) # NoneV THEN FirstRaise(xs)
    ELSE IF \E i \in DOMAIN xs : xs[i].tag \notin {"dense", "sparse"}
         THEN Raise("ValueError")
    ELSE Val("sparse", Flatten([i \in DOMAIN xs |-> xs[i].v]))

\* the three-way product both Multiplication and its generated line perform
SparseAwareMul(x, y) ==
    IF IsRaise(x) THEN x
    ELSE IF IsRaise(y) THEN y
    ELSE IF issparse(x) THEN multiply(x, y)
    ELSE IF issparse(y) THEN multiply(y, x)
    ELSE PyMul(x, y)

\* 1 / y
Reciprocal(y) == PyDiv(Num(1), y)

SparseAwareDiv(x, y) ==
    IF IsRaise(x) THEN x
    ELSE IF IsRaise(y) THEN y
    ELSE IF issparse(x) THEN multiply(x, Reciprocal(y))
    ELSE PyDiv(x, y)

-----------------------------------------------------------------------------
(* Strings *)

RECURSIVE Zeros(_)
Zeros(k) == IF k <= 0 THEN "" ELSE "0" \o Zeros(k - 1)

\* "{:05d}".format(n): zero-padded to five characters, the sign included
Format05d(n) ==
    LET digits == ToString(Abs(n))
        sign   == IF n < 0 THEN "-" ELSE ""
    IN  sign \o Zeros(5 - Len(sign) - Len(digits)) \o digits

\* s.replace(old, new)
RECURSIVE StrReplace(_, _, _)
StrReplace(s, old, new) ==
    IF Len(s) < Len(old) \/ Len(s) = 0 THEN s
    ELSE IF SubSeq(s, 1, Len(old)) = old
         THEN new \o StrReplace(SubSeq(s, Len(old) + 1, Len(s)), old, new)
    ELSE SubSeq(s, 1, 1) \o StrReplace(SubSeq(s, 2, Len(s)), old, new)

StartsWith(s, prefix) ==
    Len(s) >= Len(prefix) /\ SubSeq(s, 1, Len(prefix)) = prefix

id_to_python_variable(symbol_id, constant) ==
    LET var_format == IF constant THEN "self.const_" ELSE "self.var_"
    IN  StrReplace(var_format \o Format05d(symbol_id), "-", "m")

-----------------------------------------------------------------------------
(* The expression tree: pybamm.Symbol and its subclasses.  A symbol is     *)
(* [kind, children, a, b, domain]: a and b are the kind's own data (the    *)
(* value of a Scalar, the slice of a StateVector, the index of an Index).  *)

LeafKinds == {"Scalar", "Time", "StateVector", "Variable"}

UnaryOperator == {"Negate", "Function", "Index"}

BinaryOperator == {"Subtraction", "Multiplication", "Division"}

Concatenation == {"Concatenation", "NumpyConcatenation", "SparseStack",
                  "DomainConcatenation"}

\* the kinds find_symbols has no rule for
UnsupportedKinds == {"Variable", "Concatenation"}

\* the domains a mesh knows, in their fixed order, and their number of points
KnownDomains == <<"n", "s", "p">>

Npts(dom) == IF dom = "s" THEN 2 ELSE 1

RECURSIVE DomainSize(_)
DomainSize(domain) ==
    IF domain = <<>> THEN 0 ELSE Npts(Head(domain)) + DomainSize(Tail(domain))

SortDomain(set) == SelectSeq(KnownDomains, LAMBDA d : d \in set)

\* DomainConcatenation.create_slices: domain name -> <<start, stop>>
create_slices(domain) ==
    [d \in Range(domain) |->
        LET k == CHOOSE j \in DOMAIN domain : domain[j] = d
            start == DomainSize(SubSeq(domain, 1, k - 1))
        IN  <<start, start + Npts(d)>>]

\* Symbol.id: a hash of the symbol's structure; one value per distinct symbol
SymbolId(i) == IF i % 2 = 1 THEN -(37 * i) ELSE 4321 * i

\* Symbol.name, for the kinds whose name the generated code uses
SymbolName(n) ==
    CASE n.kind \in {"Subtraction", "Negate"} -> "-"
      [] OTHER -> n.kind

RECURSIVE is_constant(_, _)
is_constant(ns, i) ==
    /\ ns[i].kind \notin {"Time", "StateVector", "Variable"}
    /\ \A k \in DOMAIN ns[i].children : is_constant(ns, ns[i].children[k])

\* y as the column vector the expression tree is written for
AsColumn(y) == IF y.tag = "flat" THEN Val("dense", y.v) ELSE y

\* the sub-vectors of the children of a DomainConcatenation, each with its
\* place <<start, stop>> in the final vector
DomainPieces(ns, n, ch) ==
    Flatten([k \in DOMAIN ch |->
        [j \in DOMAIN ns[n.children[k]].domain |->
            [at    |-> create_slices(n.domain)[ns[n.children[k]].domain[j]],
             piece |-> GetSlice(ch[k],
                          create_slices(ns[n.children[k]].domain)[ns[n.children[k]].domain[j]][1],
                          create_slices(ns[n.children[k]].domain)[ns[n.children[k]].domain[j]][2])]]])

PieceAt(pairs, q) ==
    CHOOSE k \in DOMAIN pairs : pairs[k].at[1] < q /\ q <= pairs[k].at[2]

AssemblePieces(size, ch, pairs) ==
    IF FirstRaise(ch) # NoneV THEN FirstRaise(ch)
    ELSE IF FirstRaise([k \in DOMAIN pairs |-> pairs[k].piece]) # NoneV
         THEN FirstRaise([k \in DOMAIN pairs |-> pairs[k].piece])
    ELSE IF \E k \in DOMAIN pairs : pairs[k].piece.tag # "dense" THEN Raise("TypeError")
    ELSE IF \E k \in DOMAIN pairs :
                Len(pairs[k].piece.v) # pairs[k].at[2] - pairs[k].at[1]
         THEN Raise("ValueError")
    ELSE Val("dense",
             [q \in 1..size |->
                pairs[PieceAt(pairs, q)].piece.v[q - pairs[PieceAt(pairs, q)].at[1]]])

\* DomainConcatenation._concatenation_evaluate: every child's sub-vectors are
\* written at their place in the final vector
DomainAssemble(ns, n, ch) ==
    AssemblePieces(DomainSize(n.domain), ch, DomainPieces(ns, n, ch))

\* Symbol._base_evaluate and its overrides: a symbol's value from its
\* children's values
EvalSymbol(ns, n, t, y, ch) ==
    CASE n.kind = "Scalar" -> Num(n.a)
      [] n.kind = "Time" -> IF t = NoneV THEN Raise("ValueError") ELSE t
      [] n.kind = "StateVector" ->
            IF y = NoneV THEN Raise("TypeError") ELSE GetSlice(AsColumn(y), n.a, n.b)
      [] n.kind = "Variable" -> Raise("NotImplementedError")
      [] n.kind = "Negate" -> PyNeg(ch[1])
      [] n.kind = "Function" -> Apply(FuncHandle, ch[1])
      [] n.kind = "Index" -> GetItem(ch[1], n.a)
      [] n.kind = "Subtraction" -> PySub(ch[1], ch[2])
      [] n.kind = "Multiplication" -> SparseAwareMul(ch[1], ch[2])
      [] n.kind = "Division" -> SparseAwareDiv(ch[1], ch[2])
      [] n.kind = "NumpyConcatenation" -> np_concatenate(ch)
      [] n.kind = "SparseStack" -> sparse_vstack(ch)
      [] n.kind = "DomainConcatenation" -> DomainAssemble(ns, n, ch)
      [] n.kind = "Concatenation" ->
            IF FirstRaise(ch) # NoneV THEN FirstRaise(ch)
            ELSE Raise("NotImplementedError")

\* Symbol.evaluate(t, y): the recursive evaluation of the tree itself
RECURSIVE DirectEval(_, _, _, _)
DirectEval(ns, i, t, y) ==
    EvalSymbol(ns, ns[i], t, y,
               [k \in DOMAIN ns[i].children |-> DirectEval(ns, ns[i].children[k], t, y)])

-----------------------------------------------------------------------------
(* find_symbols.  Its two OrderedDicts are sequences of [key, value]; a    *)
(* generated line of code is a record                                      *)
(*    [op, name, index, args]                                              *)
(* whose args are the names the line reads, each [ref, sl] with sl the     *)
(* slice <<start, stop>> applied to it, or <<>>.                           *)

NoError == [exc |-> "", msg |-> ""]

HasKey(od, key) == \E k \in DOMAIN od : od[k].key = key

\* what od[key] = value would be if a key already there moved to the end
OrderedDictSetMovingToEnd(od, key, value) ==
    LET kept == {j \in DOMAIN od : od[j].key # key}
        Nth(q) == CHOOSE j \in kept : Cardinality({m \in kept : m < j}) = q - 1
    IN  Append([q \in 1..Cardinality(kept) |-> od[Nth(q)]],
               [key |-> key, value |-> value])

\* what od[key] = value would be on a plain list of pairs
OrderedDictSetAppending(od, key, value) ==
    Append(od, [key |-> key, value |-> value])

\* od[key] = value on an OrderedDict: a key already there keeps its place
OrderedDictSet(od, key, value) ==
    IF HasKey(od, key)
    THEN [k \in DOMAIN od |-> IF od[k].key = key
                              THEN [key |-> key, value |-> value] ELSE od[k]]
    ELSE Append(od, [key |-> key, value |-> value])

Keys(od) == {od[k].key : k \in DOMAIN od}

KeyIndex(od, key) == CHOOSE k \in DOMAIN od : od[k].key = key

Arg(ref) == [ref |-> ref, sl |-> <<>>]

SliceArg(ref, start, stop) == [ref |-> ref, sl |-> <<start, stop>>]

Line(op, name, index, args) ==
    [op |-> op, name |-> name, index |-> index, args |-> args]

\* sorted(zip(slice_starts, child_vectors)), then the vectors alone.  Two
\* sub-domains of one concatenation never start at the same place, so the
\* comparison never falls through to the text of the vectors.
RECURSIVE SortedByStart(_)
SortedByStart(pairs) ==
    IF pairs = <<>> THEN <<>>
    ELSE LET k == CHOOSE k \in DOMAIN pairs :
                     \A j \in DOMAIN pairs :
                        \/ pairs[k].start < pairs[j].start
                        \/ (pairs[k].start = pairs[j].start /\ k <= j)
         IN  <<pairs[k].vector>>
             \o SortedByStart([j \in 1..(Len(pairs) - 1) |->
                                  IF j < k THEN pairs[j] ELSE pairs[j + 1]])

\* lines 108-115: one (start in the final vector, slice of the child) per
\* child and sub-domain, in the order of the children
DomainPairs(ns, n, children_vars) ==
    Flatten([k \in DOMAIN children_vars |->
        [j \in DOMAIN ns[n.children[k]].domain |->
            [start  |-> create_slices(n.domain)[ns[n.children[k]].domain[j]][1],
             vector |-> SliceArg(children_vars[k],
                           create_slices(ns[n.children[k]].domain)[ns[n.children[k]].domain[j]][1],
                           create_slices(ns[n.children[k]].domain)[ns[n.children[k]].domain[j]][2])]]])

MultiplicationStr(children_vars) ==
    Line("multiply", "", 0, <<Arg(children_vars[1]), Arg(children_vars[2])>>)

\* the operands of line 74 the other way round
DivisionStrSwapped(children_vars) ==
    Line("divide", "", 0, <<Arg(children_vars[2]), Arg(children_vars[1])>>)

DivisionStr(children_vars) ==
    Line("divide", "", 0, <<Arg(children_vars[1]), Arg(children_vars[2])>>)

BinaryStr(n, children_vars) ==
    Line("binary", SymbolName(n), 0, <<Arg(children_vars[1]), Arg(children_vars[2])>>)

FunctionStr(funct_var, children_vars) ==
    Line("call", "", 0, <<Arg(funct_var), Arg(children_vars[1])>>)

IndexStr(n, children_vars) ==
    Line("index", "", n.a, <<Arg(children_vars[1])>>)

UnaryStr(n, children_vars) ==
    Line("unary", SymbolName(n), 0, <<Arg(children_vars[1])>>)

NumpyConcatenationStr(children_vars) ==
    IF Len(children_vars) > 1
    THEN Line("np.concatenate", "", 0, [k \in DOMAIN children_vars |-> Arg(children_vars[k])])
    ELSE Line("value", "", 0, [k \in DOMAIN children_vars |-> Arg(children_vars[k])])

SparseStackStr(children_vars) ==
    Line("scipy.sparse.vstack", "", 0,
         [k \in DOMAIN children_vars |-> Arg(children_vars[k])])

\* lines 107-120 without the sort of line 116
DomainConcatenationStrUnsorted(ns, n, children_vars) ==
    IF Len(children_vars) > 1
    THEN Line("np.concatenate", "", 0,
              [k \in DOMAIN DomainPairs(ns, n, children_vars) |->
                  DomainPairs(ns, n, children_vars)[k].vector])
    ELSE Line("value", "", 0, [k \in DOMAIN children_vars |-> Arg(children_vars[k])])

DomainConcatenationStr(ns, n, children_vars) ==
    IF Len(children_vars) > 1
    THEN Line("np.concatenate", "", 0, SortedByStart(DomainPairs(ns, n, children_vars)))
    ELSE Line("value", "", 0, [k \in DOMAIN children_vars |-> Arg(children_vars[k])])

\* symbol.name of a StateVector is the text "y[start:stop]"
StateVectorStr(n) == Line("value", "", 0, <<SliceArg("y", n.a, n.b)>>)

TimeStr == Line("value", "", 0, <<Arg("t")>>)

RaiseStr(msg) == Line("raise", msg, 0, <<>>)

UnsupportedMessage(n) ==
    "Not implemented for a symbol of type '" \o n.kind \o "'"

\* lines 62-134: the line of code for a symbol, from its kind
symbol_str(ns, n, children_vars, funct_var) ==
    IF n.kind \in BinaryOperator
    THEN IF n.kind = "Multiplication" THEN MultiplicationStr(children_vars)
         ELSE IF n.kind = "Division" THEN DivisionStr(children_vars)
         ELSE BinaryStr(n, children_vars)
    ELSE IF n.kind \in UnaryOperator
    THEN IF n.kind = "Function" THEN FunctionStr(funct_var, children_vars)
         ELSE IF n.kind = "Index" THEN IndexStr(n, children_vars)
         ELSE UnaryStr(n, children_vars)
    ELSE IF n.kind \in Concatenation
    THEN IF n.kind = "NumpyConcatenation" THEN NumpyConcatenationStr(children_vars)
         ELSE IF n.kind = "SparseStack" THEN SparseStackStr(children_vars)
         ELSE IF n.kind = "DomainConcatenation"
              THEN DomainConcatenationStr(ns, n, children_vars)
         ELSE RaiseStr("")
    ELSE IF n.kind = "StateVector" THEN StateVectorStr(n)
    ELSE IF n.kind = "Time" THEN TimeStr
    ELSE RaiseStr(UnsupportedMessage(n))

Logged(st, ev, i) == [st EXCEPT !.trace = Append(@, [ev |-> ev, node |-> i])]

ConstantStored(i, st, value) ==
    IF IsRaise(value)
    THEN [st EXCEPT !.error = [exc |-> value.exc, msg |-> ""]]
    ELSE [Logged(st, "constant", i) EXCEPT
             !.constant_symbols = OrderedDictSet(@, SymbolId(i), value)]

\* line 50
StoreConstant(ns, i, st) == ConstantStored(i, st, DirectEval(ns, i, NoneV, NoneV))

\* lines 59-60
ChildrenVars(ns, n) ==
    [k \in DOMAIN n.children |->
        id_to_python_variable(SymbolId(n.children[k]), is_constant(ns, n.children[k]))]

\* line 83 left out
StoreFunctionWithoutHandle(n, i, st) == st

\* line 83
StoreFunction(n, i, st) ==
    IF n.kind = "Function"
    THEN [st EXCEPT !.constant_symbols = OrderedDictSet(@, SymbolId(i), FuncHandle)]
    ELSE st

\* line 136, or the NotImplementedError of lines 122 and 132
VariableStored(n, i, st, line) ==
    IF line.op = "raise"
    THEN [st EXCEPT !.error = [exc |-> "NotImplementedError", msg |-> line.name]]
    ELSE [Logged(StoreFunction(n, i, st), "variable", i) EXCEPT
             !.variable_symbols = OrderedDictSet(@, SymbolId(i), line)]

\* lines 57-136, once the children are done
StoreVariable(ns, i, st) ==
    VariableStored(ns[i], i, st,
                   symbol_str(ns, ns[i], ChildrenVars(ns, ns[i]),
                              id_to_python_variable(SymbolId(i), TRUE)))

\* One step of the recursion of find_symbols.  stack holds the calls in
\* progress, the innermost first, each [node, k]: k = 0 on entry, then the
\* child the loop of lines 54-55 visits next.
FrameStep(ns, stack, st) ==
    LET i == Head(stack).node
        k == Head(stack).k
    IN  IF k = 0
        THEN IF is_constant(ns, i)
             THEN [stack |-> Tail(stack), st |-> StoreConstant(ns, i, Logged(st, "enter", i))]
             ELSE [stack |-> <<[node |-> i, k |-> 1]>> \o Tail(stack),
                   st    |-> Logged(st, "enter", i)]
        ELSE IF k <= Len(ns[i].children)
        THEN [stack |-> <<[node |-> ns[i].children[k], k |-> 0], [node |-> i, k |-> k + 1]>>
                        \o Tail(stack),
              st    |-> st]
        ELSE [stack |-> Tail(stack), st |-> StoreVariable(ns, i, st)]

\* the calls run until the outermost returns or an exception unwinds them
RECURSIVE RunFrames(_, _)
RunFrames(ns, x) ==
    IF x.stack = <<>> \/ x.st.error # NoError THEN x.st
    ELSE RunFrames(ns, FrameStep(ns, x.stack, x.st))

find_symbols(ns, i, st) ==
    RunFrames(ns, [stack |-> <<[node |-> i, k |-> 0]>>, st |-> st])

EmptyTables ==
    [constant_symbols |-> <<>>, variable_symbols |-> <<>>,
     trace |-> <<>>, error |-> NoError]

VariableLines(variable_symbols) ==
    [k \in DOMAIN variable_symbols |->
        [target |-> id_to_python_variable(variable_symbols[k].key, FALSE),
         line   |-> variable_symbols[k].value]]

Compiled(st) ==
    [constants |-> st.constant_symbols,
     variable_lines |-> VariableLines(st.variable_symbols),
     trace |-> st.trace,
     error |-> st.error]

\* to_python: the constants, and one assignment per entry of variable_symbols
to_python(ns, i) == Compiled(find_symbols(ns, i, EmptyTables))

-----------------------------------------------------------------------------
(* EvaluatorPython *)

EmptyAttrs == [x \in {} |-> NoneV]

\* setattr(self, name, value)
SetAttr(attrs, name, value) ==
    [x \in DOMAIN attrs \cup {name} |-> IF x = name THEN value ELSE attrs[x]]

RECURSIVE SetConstants(_, _, _)
\* lines 180-182
SetConstants(attrs, constants, k) ==
    IF k > Len(constants) THEN attrs
    ELSE SetConstants(
            SetAttr(attrs,
                    StrReplace(id_to_python_variable(constants[k].key, TRUE), "self.", ""),
                    constants[k].value),
            constants, k + 1)

NoEvaluator == [attrs |-> EmptyAttrs, variable_function |-> <<>>, result_var |-> ""]

\* EvaluatorPython.__init__, when to_python returned
NewEvaluator(ns, i, compiled) ==
    [attrs             |-> SetConstants(EmptyAttrs, compiled.constants, 1),
     variable_function |-> compiled.variable_lines,
     result_var        |-> id_to_python_variable(SymbolId(i), is_constant(ns, i))]

\* the value of a name in the generated code: a local of evaluate, or an
\* attribute of self
NameValue(attrs, t, y, ref) ==
    IF ref = "t" THEN t
    ELSE IF ref = "y" THEN y
    ELSE IF StartsWith(ref, "self.")
         THEN LET attr == SubSeq(ref, 6, Len(ref))
              IN  IF attr \in DOMAIN attrs THEN attrs[attr] ELSE Raise("AttributeError")
    ELSE Raise("NameError")

ArgValue(attrs, t, y, arg) ==
    IF arg.sl = <<>> THEN NameValue(attrs, t, y, arg.ref)
    ELSE GetSlice(NameValue(attrs, t, y, arg.ref), arg.sl[1], arg.sl[2])

\* "{0}.multiply({1}) if scipy.sparse.issparse({0}) else
\*  {1}.multiply({0}) if scipy.sparse.issparse({1}) else {0} * {1}"
MultiplyLine(x, y) ==
    IF IsRaise(x) THEN x
    ELSE IF issparse(x) THEN multiply(x, y)
    ELSE IF IsRaise(y) THEN y
    ELSE IF issparse(y) THEN multiply(y, x)
    ELSE PyMul(x, y)

\* "{0}.multiply(1/{1}) if scipy.sparse.issparse({0}) else {0} / {1}"
DivideLine(x, y) ==
    IF IsRaise(x) THEN x
    ELSE IF issparse(x) THEN multiply(x, PyDiv(Num(1), y))
    ELSE PyDiv(x, y)

\* what Python computes for the right-hand side of a generated line, from
\* the values xs of the names it reads
Compute(line, xs) ==
    CASE line.op = "multiply" -> MultiplyLine(xs[1], xs[2])
      [] line.op = "divide" -> DivideLine(xs[1], xs[2])
      [] line.op = "binary" ->
            IF line.name = "-" THEN PySub(xs[1], xs[2]) ELSE Raise("SyntaxError")
      [] line.op = "unary" ->
            IF line.name = "-" THEN PyNeg(xs[1]) ELSE Raise("NameError")
      [] line.op = "call" -> Apply(xs[1], xs[2])
      [] line.op = "index" -> GetItem(xs[1], line.index)
      [] line.op = "np.concatenate" -> np_concatenate(xs)
      [] line.op = "scipy.sparse.vstack" -> sparse_vstack(xs)
      [] line.op = "value" -> xs[1]

LineValue(attrs, t, y, line) ==
    Compute(line, [k \in DOMAIN line.args |-> ArgValue(attrs, t, y, line.args[k])])

\* where a generated assignment stores its result: its target "self.var_..."
\* is an attribute of the evaluator itself
Assign(attrs, target, value) ==
    IF IsRaise(value) THEN [attrs |-> attrs, raised |-> value]
    ELSE [attrs  |-> SetAttr(attrs, StrReplace(target, "self.", ""), value),
          raised |-> NoneV]

ExecLine(attrs, t, y, assignment) ==
    Assign(attrs, assignment.target, LineValue(attrs, t, y, assignment.line))

\* lines 191-192
Reshape(y) == IF y # NoneV /\ y.tag = "flat" THEN Val("dense", y.v) ELSE y

\* lines 198-201
ReturnValue(ev, t, y, known_evals) ==
    [value |-> NameValue(ev.attrs, t, y, ev.result_var), known_evals |-> known_evals]

Raised(exc) == [value |-> exc, known_evals |-> "None"]

\* exec(self._variable_compiled) from line ip on: the attributes when it ends
\* and the exception that ended it, if any
RECURSIVE ExecFrom(_, _, _, _, _)
ExecFrom(r, program, ip, t, y) ==
    IF ip > Len(program) \/ r.raised # NoneV THEN r
    ELSE ExecFrom(ExecLine(r.attrs, t, y, program[ip]), program, ip + 1, t, y)

Exec(attrs, program, t, y) ==
    ExecFrom([attrs |-> attrs, raised |-> NoneV], program, 1, t, y)

-----------------------------------------------------------------------------
(* The symbols a model can hand to the evaluator *)

Symbol(kind, children, a, b, domain) ==
    [kind |-> kind, children |-> children, a |-> a, b |-> b, domain |-> domain]

Leaves ==
    { Symbol("Scalar", <<>>, 2, 0, <<>>),
      Symbol("Time", <<>>, 0, 0, <<>>),
      Symbol("StateVector", <<>>, 0, 3, <<"n", "s">>),
      Symbol("StateVector", <<>>, 3, 4, <<"p">>),
      Symbol("Variable", <<>>, 0, 0, <<>>) }

\* the domain a new symbol takes from its children
ChildrenDomain(ns, kind, children) ==
    LET doms == [k \in DOMAIN children |-> ns[children[k]].domain]
    IN  IF kind \in {"Index", "NumpyConcatenation", "SparseStack"} THEN <<>>
        ELSE IF kind \in Concatenation
             THEN SortDomain(UNION {Range(doms[k]) : k \in DOMAIN doms})
        ELSE IF doms[1] # <<>> THEN doms[1]
        ELSE doms[Len(doms)]

\* the operands of a new operator: a tree is built bottom-up, so an operator
\* is created right after its newest operand
ChildLists(ns, kind) ==
    LET last  == {Len(ns)} \cap DOMAIN ns
        one   == {<<c>> : c \in last}
        two   == {<<c, d>> : c \in DOMAIN ns, d \in last}
                 \cup {<<c, d>> : c \in last, d \in DOMAIN ns}
    IN  IF kind \in UnaryOperator THEN one
        ELSE IF kind \in BinaryOperator THEN two
        ELSE one \cup two

Candidates(ns) ==
    Leaves \cup
    { Symbol(kind, children, IF kind = "Index" THEN 1 ELSE 0, 0,
             ChildrenDomain(ns, kind, children)) :
        <<kind, children>> \in
            UNION {{<<kind, ch>> : ch \in ChildLists(ns, kind)} :
                   kind \in UnaryOperator \cup BinaryOperator \cup Concatenation} }

RECURSIVE Reachable(_, _)
\* the symbols of the tree under symbol i
Reachable(ns, i) ==
    {i} \cup UNION {Reachable(ns, ns[i].children[k]) : k \in DOMAIN ns[i].children}

SampleTime == Num(2)

SampleState == Val("dense", <<Rat(3, 1), Rat(1, 1), Rat(4, 1), Rat(5, 1)>>)

\* evaluating the symbol for its shape succeeds, unless the tree holds a
\* symbol that cannot be evaluated at all
HasShape(ns, i, v) ==
    IsRaise(v) => \E j \in Reachable(ns, i) : ns[j].kind \in UnsupportedKinds

Fills(c, domain) == IsRaise(c) \/ (c.tag = "dense" /\ Len(c.v) = DomainSize(domain))

\* the rules the tree builder enforces: domains agree, the symbol has a shape,
\* and a child of a DomainConcatenation fills exactly its sub-domains
WellFormed(ns, i) ==
    LET n    == ns[i]
        doms == [k \in DOMAIN n.children |-> ns[n.children[k]].domain]
    IN  /\ n.kind \in BinaryOperator =>
              doms[1] = doms[2] \/ doms[1] = <<>> \/ doms[2] = <<>>
        /\ n.kind \in {"Concatenation", "DomainConcatenation"} =>
              /\ \A k \in DOMAIN doms : doms[k] # <<>>
              /\ \A k, j \in DOMAIN doms : k # j => Range(doms[k]) \cap Range(doms[j]) = {}
              /\ \A k \in DOMAIN doms :
                    Fills(DirectEval(ns, n.children[k], SampleTime, SampleState), doms[k])
        /\ n.kind \in UnsupportedKinds => ~is_constant(ns, i)
        /\ HasShape(ns, i, DirectEval(ns, i, SampleTime, SampleState))

-----------------------------------------------------------------------------
(* evaluate(t, y, known_evals): the arguments the callers pass *)

Callers == {"main", "other"}

Inputs ==
    { [t |-> Num(2), y |-> Val("flat", <<Rat(3, 1), Rat(1, 1), Rat(4, 1), Rat(5, 1)>>),
       known_evals |-> "None"],
      [t |-> Num(3), y |-> Val("dense", <<Rat(2, 1), Rat(7, 1), Rat(1, 1), Rat(8, 1)>>),
       known_evals |-> "dict"],
      [t |-> NoneV, y |-> NoneV, known_evals |-> "None"] }

Idle == [pc |-> "idle", ip |-> 0, t |-> NoneV, y |-> NoneV, t0 |-> NoneV, y0 |-> NoneV,
         known_evals |-> "None", ret |-> Raised(NoneV)]

-----------------------------------------------------------------------------
(* Actions *)

Init ==
    /\ nodes = <<>>
    /\ phase = "build"
    /\ root = 0
    /\ evaluator = NoEvaluator
    /\ trace = <<>>
    /\ error = NoError
    /\ calls = [c \in Callers |-> Idle]

\* the model under construction creates one more symbol
NewSymbol(limit) ==
    /\ phase = "build"
    /\ Len(nodes) < limit
    /\ \E n \in Candidates(nodes) :
          /\ n \notin Range(nodes)
          /\ WellFormed(Append(nodes, n), Len(nodes) + 1)
          /\ nodes' = Append(nodes, n)
    /\ UNCHANGED <<phase, root, evaluator, trace, error, calls>>

\* EvaluatorPython(symbol), for the symbol created last, once every symbol
\* created is part of its tree
Construct ==
    /\ phase = "build"
    /\ Len(nodes) > 0
    /\ Reachable(nodes, Len(nodes)) = DOMAIN nodes
    /\ \E compiled \in {to_python(nodes, Len(nodes))} :
          /\ root' = Len(nodes)
          /\ trace' = compiled.trace
          /\ error' = compiled.error
          /\ IF compiled.error = NoError
             THEN /\ phase' = "ready"
                  /\ evaluator' = NewEvaluator(nodes, Len(nodes), compiled)
             ELSE /\ phase' = "failed"
                  /\ evaluator' = NoEvaluator
    /\ UNCHANGED <<nodes, calls>>

\* evaluator.evaluate(t, y, known_evals), from entry to return
Evaluate(c, in) ==
    /\ phase = "ready"
    /\ \A d \in Callers : calls[d].pc # "running"
    /\ \E r \in {Exec(evaluator.attrs, evaluator.variable_function, in.t, Reshape(in.y))} :
          /\ evaluator' = [evaluator EXCEPT !.attrs = r.attrs]
          /\ calls' = [calls EXCEPT ![c] =
                [pc |-> IF r.raised # NoneV THEN "raised" ELSE "returned",
                 ip |-> 0, t |-> in.t, y |-> Reshape(in.y), t0 |-> in.t, y0 |-> in.y,
                 known_evals |-> in.known_evals,
                 ret |-> IF r.raised # NoneV THEN Raised(r.raised)
                         ELSE ReturnValue([evaluator EXCEPT !.attrs = r.attrs],
                                          in.t, Reshape(in.y), in.known_evals)]]
    /\ UNCHANGED <<nodes, phase, root, trace, error>>

\* a caller enters evaluate: lines 189-192
Begin(c, in) ==
    /\ phase = "ready"
    /\ calls[c].pc # "running"
    /\ calls' = [calls EXCEPT ![c] =
          [pc |-> "running", ip |-> 1, t |-> in.t, y |-> Reshape(in.y),
           t0 |-> in.t, y0 |-> in.y, known_evals |-> in.known_evals,
           ret |-> Raised(NoneV)]]
    /\ UNCHANGED <<nodes, phase, root, evaluator, trace, error>>

\* the caller's exec runs its next generated line
Step(c) ==
    /\ calls[c].pc = "running"
    /\ calls[c].ip <= Len(evaluator.variable_function)
    /\ \E r \in {ExecLine(evaluator.attrs, calls[c].t, calls[c].y,
                            evaluator.variable_function[calls[c].ip])} :
          /\ evaluator' = [evaluator EXCEPT !.attrs = r.attrs]
          /\ calls' = [calls EXCEPT ![c] =
                IF r.raised # NoneV
                THEN [@ EXCEPT !.pc = "raised", !.ret = Raised(r.raised)]
                ELSE [@ EXCEPT !.ip = @ + 1]]
    /\ UNCHANGED <<nodes, phase, root, trace, error>>

\* the caller's exec is over: eval(self._return_compiled), lines 198-201
Return(c) ==
    /\ calls[c].pc = "running"
    /\ calls[c].ip > Len(evaluator.variable_function)
    /\ calls' = [calls EXCEPT ![c] =
          [@ EXCEPT !.pc = "returned",
                    !.ret = ReturnValue(evaluator, calls[c].t, calls[c].y,
                                        calls[c].known_evals)]]
    /\ UNCHANGED <<nodes, phase, root, evaluator, trace, error>>

\* one caller at a time
Next ==
    \/ NewSymbol(MaxNodes)
    \/ Construct
    \/ \E in \in Inputs : Evaluate("main", in)

Spec == Init /\ [][Next]_vars

\* two callers share the evaluator, interleaved line by line
NextConcurrent ==
    \/ NewSymbol(MaxConcurrentNodes)
    \/ Construct
    \/ \E c \in Callers : \E in \in Inputs : Begin(c, in)
    \/ \E c \in Callers : Step(c)
    \/ \E c \in Callers : Return(c)

SpecConcurrent == Init /\ [][NextConcurrent]_vars

-----------------------------------------------------------------------------
(* What the claims are stated with *)

RECURSIVE Walked(_, _)
\* the symbols under i that are not below a constant symbol
Walked(ns, i) ==
    {i} \cup (IF is_constant(ns, i) THEN {}
              ELSE UNION {Walked(ns, ns[i].children[k]) : k \in DOMAIN ns[i].children})

RECURSIVE PostOrder(_, _)
\* the non-constant symbols under i, children before parent, a shared one
\* once per occurrence
PostOrder(ns, i) ==
    IF is_constant(ns, i) THEN <<>>
    ELSE Flatten([k \in DOMAIN ns[i].children |-> PostOrder(ns, ns[i].children[k])])
         \o <<i>>

RECURSIVE FirstOccurrences(_)
FirstOccurrences(seq) ==
    IF seq = <<>> THEN <<>>
    ELSE LET front == FirstOccurrences(SubSeq(seq, 1, Len(seq) - 1))
         IN  IF seq[Len(seq)] \in Range(front) THEN front
             ELSE Append(front, seq[Len(seq)])

Occurrences(seq, x) == Cardinality({k \in DOMAIN seq : seq[k] = x})

RECURSIVE StrContains(_, _)
StrContains(s, part) ==
    /\ Len(s) >= Len(part)
    /\ \/ SubSeq(s, 1, Len(part)) = part
       \/ StrContains(SubSeq(s, 2, Len(s)), part)

Compilation == find_symbols(nodes, root, EmptyTables)

Program == evaluator.variable_function

VarName(i) == id_to_python_variable(SymbolId(i), FALSE)

ConstName(i) == id_to_python_variable(SymbolId(i), TRUE)

LinesNamed(name) == {k \in DOMAIN Program : Program[k].target = name}

LinesOf(i) == LinesNamed(VarName(i))

Refs(k) == {Program[k].line.args[q].ref : q \in DOMAIN Program[k].line.args}

Last == calls["main"]

\* every symbol of the tree is a key of one table and not of the other
InExactlyOne(tables) ==
    \A i \in Reachable(nodes, root) :
        (SymbolId(i) \in Keys(tables.constant_symbols))
            # (SymbolId(i) \in Keys(tables.variable_symbols))

\* what each table holds, given the symbols the walk enters
TablesHold(tables, walked) ==
    \A i \in DOMAIN nodes :
        /\ SymbolId(i) \in Keys(tables.variable_symbols)
              <=> (i \in walked /\ ~is_constant(nodes, i))
        /\ SymbolId(i) \in Keys(tables.constant_symbols)
              <=> /\ i \in walked
                  /\ is_constant(nodes, i) \/ nodes[i].kind = "Function"

\* symbol i has one line, at its place in the order of first discovery, and
\* the line of each of its parents reads its name
OneLineAtFirst(i, name, first) ==
    /\ Cardinality(LinesNamed(name)) = 1
    /\ \A k \in LinesNamed(name) : k <= Len(first) /\ first[k] = i
    /\ \A p \in Range(first) :
          i \in Range(nodes[p].children) => \A k \in LinesOf(p) : name \in Refs(k)

\* the call's inputs are all the tree needs
ValidInputs(c) ==
    /\ c.t0 = NoneV => \A i \in Walked(nodes, root) : nodes[i].kind # "Time"
    /\ c.y0 = NoneV => \A i \in Walked(nodes, root) : nodes[i].kind # "StateVector"

-----------------------------------------------------------------------------
(* The claims *)

\* C1: for every supported tree and every valid (t, y), a finished call
\* EvaluatorPython(root).evaluate(t, y) returned, and returned the value of
\* the direct recursive evaluation root.evaluate(t, y).
C1_Equivalence ==
    (phase = "ready" /\ Last.pc # "idle" /\ ValidInputs(Last)) =>
        /\ Last.pc = "returned"
        /\ Last.ret.value = DirectEval(nodes, root, Last.t0, Last.y0)
        /\ Last.ret.known_evals = Last.known_evals

C1_Witness ==
    /\ phase = "ready"
    /\ Last.pc = "returned"
    /\ Last.t0 # NoneV
    /\ nodes[root].kind = "Multiplication"
    /\ Last.ret.value.tag = "sparse"
    /\ Len(Program) >= 3

\* C2 as stated: every symbol reachable from the root is a key of exactly one
\* of the constant table and the instruction program.
C2_ExactlyOneTable ==
    phase = "ready" => InExactlyOne(Compilation)

\* C2 amended: the instruction program holds exactly the non-constant symbols
\* under the root; the constant table holds exactly the constant symbols that
\* are not below another constant symbol, and every non-constant Function.
\* So a symbol is in both tables iff it is a non-constant Function, and in
\* neither iff it only occurs below a constant symbol.
C2_TablesPartition ==
    phase = "ready" => TablesHold(Compilation, Walked(nodes, root))

C2_Witness ==
    /\ phase = "ready"
    /\ \E i \in Reachable(nodes, root) :
          /\ nodes[i].kind = "Function"
          /\ SymbolId(i) \in Keys(Compilation.constant_symbols)
          /\ SymbolId(i) \in Keys(Compilation.variable_symbols)

\* C3: every name a generated line reads is bound before the line runs: a
\* self.var_ name is the target of a strictly earlier line, a self.const_ name
\* is in the constant table.
C3_ReferencesResolve ==
    phase = "ready" =>
        \A k \in DOMAIN Program : \A ref \in Refs(k) :
            \/ ref \in {"t", "y"}
            \/ /\ StartsWith(ref, "self.var_")
               /\ \E j \in 1..(k - 1) : Program[j].target = ref
            \/ /\ StartsWith(ref, "self.const_")
               /\ \E key \in Keys(Compilation.constant_symbols) :
                     id_to_python_variable(key, TRUE) = ref

C3_Witness ==
    /\ phase = "ready"
    /\ \E i \in DOMAIN nodes : Occurrences(PostOrder(nodes, root), i) >= 2
    /\ \E k \in DOMAIN Program :
          /\ \E ref \in Refs(k) : StartsWith(ref, "self.var_")
          /\ \E ref \in Refs(k) : StartsWith(ref, "self.const_")

\* C4: a non-constant symbol that occurs twice or more has exactly one line,
\* at the place of its first discovery in the post-order walk, and every
\* parent's line reads that one name.
C4_SharedOnce ==
    phase = "ready" =>
        \A i \in DOMAIN nodes :
            Occurrences(PostOrder(nodes, root), i) >= 2 =>
                OneLineAtFirst(i, VarName(i), FirstOccurrences(PostOrder(nodes, root)))

C4_Witness ==
    /\ phase = "ready"
    /\ \E i \in DOMAIN nodes :
          /\ Occurrences(PostOrder(nodes, root), i) >= 2
          /\ nodes[i].children # <<>>
          /\ LinesOf(i) # {}

\* C5: a call to evaluate never mutates the evaluator: its attributes and
\* their values are the same after the call as before.
C5_EvaluateKeepsEvaluator ==
    [][phase = "ready" => evaluator' = evaluator]_vars

\* C6: with two callers interleaved line by line on one evaluator, each call
\* that returns, returns what it would have returned running alone with its
\* own inputs.
C6_CallsIsolated ==
    \A c \in Callers :
        calls[c].pc = "returned" =>
            calls[c].ret.value =
                NameValue(Exec(evaluator.attrs, Program, calls[c].t, calls[c].y).attrs,
                          calls[c].t, calls[c].y, evaluator.result_var)

\* C7: the line of a DomainConcatenation with more than one child
\* concatenates one slice child[start:stop] per child and sub-domain, in the
\* ascending order of the sub-domains' starts in the final vector, whatever
\* the order of the children.
C7_DomainOrder ==
    phase = "ready" =>
        \A i \in Walked(nodes, root) :
            (nodes[i].kind = "DomainConcatenation" /\ Len(nodes[i].children) > 1) =>
                \A k \in LinesOf(i) :
                    LET args  == Program[k].line.args
                        pairs == {[start |-> create_slices(nodes[i].domain)[d][1],
                                   arg   |-> SliceArg(
                                       id_to_python_variable(SymbolId(c), is_constant(nodes, c)),
                                       create_slices(nodes[c].domain)[d][1],
                                       create_slices(nodes[c].domain)[d][2])] :
                                  <<c, d>> \in UNION {{<<c, d>> : d \in Range(nodes[c].domain)} :
                                                      c \in Range(nodes[i].children)}}
                        StartOf(q) == (CHOOSE pr \in pairs : pr.arg = args[q]).start
                    IN  /\ Program[k].line.op = "np.concatenate"
                        /\ Len(args) = Cardinality(pairs)
                        /\ \A q \in DOMAIN args : \E pr \in pairs : pr.arg = args[q]
                        /\ \A q, r \in DOMAIN args : q < r => StartOf(q) < StartOf(r)

\* children declared against the order of their sub-domains
C7_Witness ==
    /\ phase = "ready"
    /\ nodes[root].kind = "DomainConcatenation"
    /\ Len(nodes[root].children) = 2
    /\ nodes[nodes[root].children[1]].domain = <<"p">>
    /\ nodes[nodes[root].children[2]].domain = <<"n", "s">>
    /\ LinesOf(root) # {}

\* C8: a tree holding a symbol of an unsupported kind (or an unsupported kind
\* of concatenation) is refused: the construction raises NotImplementedError
\* with a message naming that kind, and no evaluator exists.
C8_UnsupportedNamed ==
    (phase # "build" /\ \E i \in Reachable(nodes, root) : nodes[i].kind \in UnsupportedKinds) =>
        /\ phase = "failed"
        /\ evaluator = NoEvaluator
        /\ error.exc = "NotImplementedError"
        /\ \E i \in Reachable(nodes, root) :
              /\ nodes[i].kind \in UnsupportedKinds
              /\ StrContains(error.msg, nodes[i].kind)

\* C9: a call that omits t on a program with a line for Time, or omits y on a
\* program with a line for a StateVector, raises instead of returning.
C9_MissingInputRaises ==
    (phase = "ready" /\ Last.pc # "idle" /\ ~ValidInputs(Last)) => Last.pc = "raised"

\* C10: one compilation handles each symbol at most once: entered again for a
\* symbol already in a table, find_symbols neither evaluates the constant nor
\* generates the line a second time.
C10_EachSymbolOnce ==
    phase # "build" =>
        \A i \in DOMAIN nodes :
            Cardinality({k \in DOMAIN trace :
                            trace[k].node = i /\ trace[k].ev \in {"constant", "variable"}}) <= 1

=============================================================================
